---- MODULE Spec2Model ----
(***************************************************************************)
(* A model of the trace visualizer of tools/debug-ui                       *)
(* (src/trace_visualizer/TraceVisualizer.tsx): the span forest builder     *)
(* (extractVisSpans), the lane grouper (getNodeSpans), the layout engine   *)
(* (arrangeSpans / arrangeSpan / isColliding), the renderer's row          *)
(* computation (DrawSpan) and the timeline state machine (TimelineState    *)
(* and its mouse and wheel handlers).                                      *)
(*                                                                         *)
(* Times are counted in units of 1e8 ns (100 ms), so that the constants    *)
(* of the TimelineState constructor (1e9 .. 4e9) and the 0.100 * 1e9 of    *)
(* the re-initialisation are the small integers 10 .. 40 and 1.            *)
(***************************************************************************)
EXTENDS Integers, Sequences, FiniteSets, TLC

VARIABLES
    payload,              \* the parsed trace file the user can load: a sequence of raw spans
    traceFile,            \* useState traceFile: "" until the file is loaded
    spans,                \* the VisSpan objects made by extractVisSpans (by position)
    allSpans,             \* AllSpans.spans: the top-level spans (positions in spans)
    displayedSpansRange,  \* useState displayedSpansRange
    nodeSpans,            \* useMemo nodeSpans: the lanes of the last layout pass
    fresh,                \* history: every height_level was 0 when the last pass began
    threw,                \* the render threw a TypeError: nothing is drawn any more
    timelineState,        \* useState timelineState
    extrema,              \* useMemo minStartTime, maxEndTime of the loaded file
    lastEvent,            \* history: the handler that ran last
    events,               \* history: the number of events so far
    gesture,              \* history: the selection gesture begun on the background
    now,                  \* Date.now(), in ms since the component was mounted
    lastUpdatedDisplayedSpansRange,  \* useRef: .current, the time of the last update
    timers,               \* the setTimeout callbacks that are pending
    cleanup,              \* what the last run of the debounce effect returned
    effectRuns            \* history: how often the debounce effect has run

layoutVars == <<payload, spans, allSpans, displayedSpansRange, nodeSpans, fresh, threw>>

timelineVars == <<timelineState, extrema, lastEvent, events, gesture>>

debounceVars == <<now, lastUpdatedDisplayedSpansRange, timers, cleanup, effectRuns>>

vars == <<payload, traceFile, spans, allSpans, displayedSpansRange, nodeSpans, fresh, threw,
          timelineState, extrema, lastEvent, events, gesture,
          now, lastUpdatedDisplayedSpansRange, timers, cleanup, effectRuns>>

----------------------------------------------------------------------------
(* Bounds of the model                                                      *)

\* Span timestamps are drawn from 0 .. MaxTime.
MaxTime == 1
\* Payloads with arbitrary parent references hold at most MaxSpans spans.
MaxSpans == 2
\* Payloads whose parents are earlier spans hold at most MaxTreeSpans spans.
MaxTreeSpans == 3
\* The number of events of a behaviour of the timeline.
MaxEvents == 3
\* The selection changes and renders happen within MaxTicks steps of the clock.
MaxTicks == 3
\* The runs of the debounce effect that renders other than a timer's cause.
MaxEffectRuns == 4

----------------------------------------------------------------------------
(* Helpers on numbers and sequences                                         *)

Min(a, b) == IF a <= b THEN a ELSE b

Max(a, b) == IF a >= b THEN a ELSE b

Range(s) == {s[i] : i \in 1..Len(s)}

----------------------------------------------------------------------------
(* JavaScript numbers                                                       *)

\* A number of the timeline is an exact fraction <<n, d>> in lowest terms
\* with d > 0, or one of the values a division by zero produces: Infinity
\* <<1, 0>>, -Infinity <<-1, 0>> and NaN <<0, 0>>. Rounding and the sign of
\* zero are not modelled.
Sign(n) == IF n > 0 THEN 1 ELSE IF n < 0 THEN -1 ELSE 0

Abs(n) == IF n < 0 THEN -n ELSE n

RECURSIVE GCD(_, _)
GCD(a, b) == IF b = 0 THEN a ELSE GCD(b, a % b)

Num(n, d) ==
    IF d = 0 THEN <<Sign(n), 0>>
    ELSE LET g == GCD(Abs(n), Abs(d))
         IN  <<(Sign(d) * n) \div g, Abs(d) \div g>>

R(n) == <<n, 1>>

NaN == <<0, 0>>

IsFinite(a) == a[2] # 0

NumAdd(a, b) ==
    IF a = NaN \/ b = NaN THEN NaN
    ELSE IF ~IsFinite(a) /\ ~IsFinite(b) THEN (IF a = b THEN a ELSE NaN)
    ELSE IF ~IsFinite(a) THEN a
    ELSE IF ~IsFinite(b) THEN b
    ELSE Num(a[1] * b[2] + b[1] * a[2], a[2] * b[2])

NumSub(a, b) == NumAdd(a, <<-b[1], b[2]>>)

NumMul(a, b) == Num(a[1] * b[1], a[2] * b[2])

NumDiv(a, b) == Num(a[1] * b[2], a[2] * b[1])

\* a < b, a === b, a <= b: false when an operand is NaN.
NumLt(a, b) ==
    /\ a # NaN /\ b # NaN
    /\ IF ~IsFinite(a) /\ ~IsFinite(b) THEN a[1] < b[1]
       ELSE a[1] * b[2] < b[1] * a[2]

NumEq(a, b) == a # NaN /\ b # NaN /\ a = b

NumLe(a, b) == NumLt(a, b) \/ NumEq(a, b)

\* Math.min, Math.max: NaN when an operand is NaN.
MathMin(a, b) ==
    IF a = NaN \/ b = NaN THEN NaN ELSE IF NumLt(b, a) THEN b ELSE a

MathMax(a, b) ==
    IF a = NaN \/ b = NaN THEN NaN ELSE IF NumLt(a, b) THEN b ELSE a

----------------------------------------------------------------------------
(* The raw payload                                                          *)

\* The parentSpanId of a span without parent: the empty string.
EmptyId == 0

\* The service.name values of the payload's resources, in localeCompare
\* order, the last being the name given to spans without the attribute.
MissingName == "service.name missing"

LaneNames == <<"constructor", "node0", MissingName>>

NoService == "undefined"

\* The keys that `in` finds in an object literal without own properties:
\* the properties of Object.prototype, of which the payload uses one.
ObjectPrototypeKeys == {"constructor"}

Services == {"node0", NoService} \cup ObjectPrototypeKeys

Times == 0..MaxTime

Intervals == {iv \in Times \X Times : iv[1] <= iv[2]}

RawSpan(id, parent, iv, svc) ==
    [spanId |-> id, parentSpanId |-> parent,
     startTimeUnixNano |-> iv[1], endTimeUnixNano |-> iv[2], service |-> svc]

\* Spans that start and end at the same time.
Instants == {<<t, t>> : t \in Times}

\* What a payload of n spans may say about one span. A parent id is the
\* empty id, the id of a span of the payload (itself included) or an id
\* that is absent from the payload (n + 1). The resource of a span that
\* names a parent is never read, so such spans all carry the first service.
SpanChoices(n) ==
    {<<EmptyId, iv, svc>> : iv \in Instants, svc \in Services}
    \cup {<<p, iv, "node0">> : p \in 1..(n + 1), iv \in Instants}

\* Span ids are non-empty and pairwise distinct: the i-th span has id i.
AnyPayloads(n) ==
    {[i \in 1..n |-> RawSpan(i, f[i][1], f[i][2], f[i][3])] :
        f \in [1..n -> SpanChoices(n)]}

\* Payloads of one service in which every span is a root of any interval
\* or the child, at one instant, of an earlier span.
TreeChoices(i) ==
    {<<EmptyId, iv>> : iv \in Intervals}
    \cup {<<p, iv>> : p \in 1..(i - 1), iv \in Instants}

TreePayloads(n) ==
    {[i \in 1..n |-> RawSpan(i, f[i][1], f[i][2], "node0")] :
        f \in {g \in [1..n -> UNION {TreeChoices(i) : i \in 1..n}] :
                 \A i \in 1..n : g[i] \in TreeChoices(i)}}

\* Payloads of one service that hold two roots, each followed by its child.
NestedPayloads ==
    {<<RawSpan(1, EmptyId, f[1], "node0"), RawSpan(2, 1, f[2], "node0"),
       RawSpan(3, EmptyId, f[3], "node0"), RawSpan(4, 3, f[4], "node0")>> :
        f \in [1..4 -> Intervals]}

Payloads ==
    UNION {AnyPayloads(n) : n \in 0..MaxSpans}
    \cup UNION {TreePayloads(n) : n \in 0..MaxTreeSpans}
    \cup NestedPayloads

----------------------------------------------------------------------------
(* extractVisSpans                                                          *)

VisSpan(raw) ==
    [spanId |-> raw.spanId, startTime |-> raw.startTimeUnixNano,
     endTime |-> raw.endTimeUnixNano, parentSpanId |-> raw.parentSpanId,
     children |-> <<>>, service |-> raw.service, height_level |-> 0]

\* spanIdToSpan[id]: the last span of the list that carries the id.
InSpanIdToSpan(S, id) == \E i \in 1..Len(S) : S[i].spanId = id

SpanIdToSpan(S, id) ==
    CHOOSE i \in 1..Len(S) :
        /\ S[i].spanId = id
        /\ \A j \in (i + 1)..Len(S) : S[j].spanId # id

\* a.sort((a, b) => a.startTime - b.startTime) on a list of positions of S:
\* Array.prototype.sort is stable, so this is an insertion sort that puts a
\* span behind the spans that start no later.
\* The sort as it would be were it not stable: a span goes before the spans
\* that start at the same time.
RECURSIVE InsertByStartTime_Unstable(_, _, _)
InsertByStartTime_Unstable(S, sorted, x) ==
    IF sorted = <<>> THEN <<x>>
    ELSE IF S[Head(sorted)].startTime - S[x].startTime < 0
         THEN <<Head(sorted)>> \o InsertByStartTime_Unstable(S, Tail(sorted), x)
         ELSE <<x>> \o sorted

RECURSIVE InsertByStartTime(_, _, _)
InsertByStartTime(S, sorted, x) ==
    IF sorted = <<>> THEN <<x>>
    ELSE IF S[Head(sorted)].startTime - S[x].startTime <= 0
         THEN <<Head(sorted)>> \o InsertByStartTime(S, Tail(sorted), x)
         ELSE <<x>> \o sorted

RECURSIVE SortByStartTimeFrom(_, _, _)
SortByStartTimeFrom(S, sorted, rest) ==
    IF rest = <<>> THEN sorted
    ELSE SortByStartTimeFrom(S, InsertByStartTime(S, sorted, Head(rest)), Tail(rest))

SortByStartTime(S, list) == SortByStartTimeFrom(S, <<>>, list)

\* The children pushed to span p, in the order of the list.
ChildrenPushed(S, p) ==
    LET IsChild(i) == /\ InSpanIdToSpan(S, S[i].parentSpanId)
                      /\ SpanIdToSpan(S, S[i].parentSpanId) = p
    IN  SelectSeq([i \in 1..Len(S) |-> i], IsChild)

\* The spans built from the raw spans, children attached and sorted.
BuildSpans(raw) ==
    LET S == [i \in 1..Len(raw) |-> VisSpan(raw[i])]
    IN  [i \in 1..Len(raw) |->
            [S[i] EXCEPT !.children = SortByStartTime(S, ChildrenPushed(S, i))]]

TopLevelSpans(S) ==
    LET IsTop(i) == S[i].parentSpanId = EmptyId
    IN  SelectSeq([i \in 1..Len(S) |-> i], IsTop)

extractVisSpans(raw) ==
    LET S == BuildSpans(raw)
    IN  [spans |-> S, top_level_spans |-> TopLevelSpans(S)]

----------------------------------------------------------------------------
(* The layout engine                                                        *)

isBetween(coord, start, end) == coord >= start /\ coord <= end

\* isCollidingInAxis with the first two tests only: an end of the second
\* interval inside the first.
isCollidingInAxis_OneSided(begin1, end1, begin2, end2) ==
    \/ isBetween(begin2, begin1, end1)
    \/ isBetween(end2, begin1, end1)

isCollidingInAxis(begin1, end1, begin2, end2) ==
    \/ isBetween(begin2, begin1, end1)
    \/ isBetween(end2, begin1, end1)
    \/ isBetween(begin1, begin2, end2)
    \/ isBetween(end1, begin2, end2)

SpanBoundingBox(s, e, h) == [start_time |-> s, end_time |-> e, height |-> h]

\* isColliding without its test of the times.
isColliding_HeightsOnly(span1, bbox1, span2, bbox2) ==
    isCollidingInAxis(span1.height_level, span1.height_level + bbox1.height,
                      span2.height_level, span2.height_level + bbox2.height)

isColliding(span1, bbox1, span2, bbox2) ==
    LET is_time_colliding ==
            isCollidingInAxis(span1.startTime, span1.endTime,
                              span2.startTime, span2.endTime)
    IN  IF ~is_time_colliding THEN FALSE
        ELSE isCollidingInAxis(span1.height_level, span1.height_level + bbox1.height,
                               span2.height_level, span2.height_level + bbox2.height)

\* The while (true) loop of arrangeSpans for sibling i: height_level is
\* raised by one as long as the span collides with an earlier sibling.
RECURSIVE BumpSpan(_, _, _, _)
\* The loop of a span with `if` for `while`: one increment at most.
BumpSpan_Once(S, list, boxes, i) ==
    IF \E j \in 1..(i - 1) : isColliding(S[list[i]], boxes[i], S[list[j]], boxes[j])
    THEN [S EXCEPT ![list[i]].height_level = @ + 1]
    ELSE S

BumpSpan(S, list, boxes, i) ==
    IF \E j \in 1..(i - 1) : isColliding(S[list[i]], boxes[i], S[list[j]], boxes[j])
    THEN BumpSpan([S EXCEPT ![list[i]].height_level = @ + 1], list, boxes, i)
    ELSE S

RECURSIVE BumpSpans(_, _, _, _)
BumpSpans(S, list, boxes, i) ==
    IF i > Len(list) THEN S
    ELSE BumpSpans(BumpSpan(S, list, boxes, i), list, boxes, i + 1)

\* The last loop of arrangeSpans: final_bbox starts as the first box.
RECURSIVE FinalBox(_, _, _, _, _)
FinalBox(S, list, boxes, final_bbox, i) ==
    IF i > Len(list) THEN final_bbox
    ELSE FinalBox(S, list, boxes,
            SpanBoundingBox(Min(final_bbox.start_time, boxes[i].start_time),
                            Max(final_bbox.end_time, boxes[i].end_time),
                            Max(final_bbox.height,
                                S[list[i]].height_level + boxes[i].height)),
            i + 1)

RECURSIVE arrangeSpans(_, _)
RECURSIVE arrangeSpan(_, _)
RECURSIVE ArrangeEach(_, _, _)

\* arrangeSpan without the row of the span itself.
arrangeSpan_NoOwnRow(S, x) ==
    IF Len(S[x].children) = 0
    THEN [S |-> S, bbox |-> SpanBoundingBox(S[x].startTime, S[x].endTime, 1)]
    ELSE LET r == arrangeSpans(S, S[x].children)
         IN  [S |-> r.S,
              bbox |-> SpanBoundingBox(Min(S[x].startTime, r.bbox.start_time),
                                       Max(S[x].endTime, r.bbox.end_time),
                                       r.bbox.height)]

\* arrangeSpan with the interval of the span itself as the box's.
arrangeSpan_OwnInterval(S, x) ==
    IF Len(S[x].children) = 0
    THEN [S |-> S, bbox |-> SpanBoundingBox(S[x].startTime, S[x].endTime, 1)]
    ELSE LET r == arrangeSpans(S, S[x].children)
         IN  [S |-> r.S,
              bbox |-> SpanBoundingBox(S[x].startTime, S[x].endTime, r.bbox.height + 1)]

\* arrangeSpan that starts the span at level 0 again.
arrangeSpan_FromLevelZero(S, x) ==
    IF Len(S[x].children) = 0
    THEN [S |-> [S EXCEPT ![x].height_level = 0],
          bbox |-> SpanBoundingBox(S[x].startTime, S[x].endTime, 1)]
    ELSE LET r == arrangeSpans(S, S[x].children)
         IN  [S |-> [r.S EXCEPT ![x].height_level = 0],
              bbox |-> SpanBoundingBox(Min(S[x].startTime, r.bbox.start_time),
                                       Max(S[x].endTime, r.bbox.end_time),
                                       r.bbox.height + 1)]

\* arrangeSpan(span): the box of the span's subtree; the height_level of
\* its descendants is modified in S.
arrangeSpan(S, x) ==
    IF Len(S[x].children) = 0
    THEN [S |-> S, bbox |-> SpanBoundingBox(S[x].startTime, S[x].endTime, 1)]
    ELSE LET r == arrangeSpans(S, S[x].children)
         IN  [S |-> r.S,
              bbox |-> SpanBoundingBox(Min(S[x].startTime, r.bbox.start_time),
                                       Max(S[x].endTime, r.bbox.end_time),
                                       r.bbox.height + 1)]

\* The first loop of arrangeSpans: arrangeSpan for every span of the list.
ArrangeEach(S, list, boxes) ==
    IF Len(boxes) = Len(list) THEN [S |-> S, boxes |-> boxes]
    ELSE LET r == arrangeSpan(S, list[Len(boxes) + 1])
         IN  ArrangeEach(r.S, list, Append(boxes, r.bbox))

\* arrangeSpans with a row for no spans.
arrangeSpans_RowForNone(S, list) ==
    IF Len(list) = 0
    THEN [S |-> S, bbox |-> SpanBoundingBox(0, 0, 1)]
    ELSE LET a == ArrangeEach(S, list, <<>>)
             B == BumpSpans(a.S, list, a.boxes, 1)
         IN  [S |-> B, bbox |-> FinalBox(B, list, a.boxes, a.boxes[1], 1)]

arrangeSpans(S, list) ==
    IF Len(list) = 0
    THEN [S |-> S, bbox |-> SpanBoundingBox(0, 0, 0)]
    ELSE LET a == ArrangeEach(S, list, <<>>)
             B == BumpSpans(a.S, list, a.boxes, 1)
         IN  [S |-> B, bbox |-> FinalBox(B, list, a.boxes, a.boxes[1], 1)]

----------------------------------------------------------------------------
(* getNodeSpans and AllSpans.getSpansForTimeRange                           *)

getSpansForTimeRange(S, top, startTime, endTime) ==
    LET Shown(i) == isCollidingInAxis(S[i].startTime, S[i].endTime, startTime, endTime)
    IN  SelectSeq(top, Shown)

ServiceName(span) ==
    IF span.service # NoService THEN span.service ELSE MissingName

\* all_nodes: the names of the lanes, sorted by localeCompare.
AllNodes(S, top) ==
    LET Used(k) == \E i \in Range(top) : ServiceName(S[i]) = LaneNames[k]
    IN  SelectSeq([k \in 1..Len(LaneNames) |-> k], Used)

RECURSIVE NodeSpansFrom(_, _, _, _)
NodeSpansFrom(S, top, nodes, res) ==
    IF nodes = <<>> THEN [S |-> S, res |-> res]
    ELSE LET name == LaneNames[Head(nodes)]
             InLane(i) == ServiceName(S[i]) = name
             cur_spans == SortByStartTime(S, SelectSeq(top, InLane))
             r == arrangeSpans(S, cur_spans)
         IN  NodeSpansFrom(r.S, top, Tail(nodes),
                Append(res, [node |-> name, spans |-> cur_spans, bbox |-> r.bbox]))

\* service_name in nodes_by_name and service_name in spans_by_node_name hold
\* of a name of Object.prototype before any span was added: no node is made,
\* and spans_by_node_name[service_name].push is not a function.
PushThrows(S, top) ==
    \E i \in Range(top) : ServiceName(S[i]) \in ObjectPrototypeKeys

getNodeSpans(S, top) ==
    IF PushThrows(S, top)
    THEN [S |-> S, res |-> <<>>, threw |-> TRUE]
    ELSE LET r == NodeSpansFrom(S, top, AllNodes(S, top), <<>>)
         IN  [S |-> r.S, res |-> r.res, threw |-> FALSE]

----------------------------------------------------------------------------
(* DrawSpan: the row a span is drawn at                                     *)

\* The spans drawn below span x (x included), each with its depth below the
\* root of the lane and its row: y / PARAMS.spanHeight.
RECURSIVE DrawSpan(_, _, _, _)
DrawSpan(S, x, curHeightLevel, depth) ==
    {[span |-> x, depth |-> depth, row |-> curHeightLevel + S[x].height_level]}
    \cup UNION {DrawSpan(S, c, curHeightLevel + S[x].height_level + 1, depth + 1) :
                    c \in Range(S[x].children)}

DrawNodeSpans(S, lane) == UNION {DrawSpan(S, x, 0, 0) : x \in Range(lane.spans)}

----------------------------------------------------------------------------
(* The component: loading a file and displaying a range                     *)

\* One render's useMemo chain: spansToDisplay, then nodeSpans.
LayoutPass(S, top, range) ==
    getNodeSpans(S, getSpansForTimeRange(S, top, range.startTime, range.endTime))

AllLevelsZero(S) == \A i \in 1..Len(S) : S[i].height_level = 0

InitLayout ==
    /\ payload \in Payloads
    /\ traceFile = ""
    /\ spans = <<>>
    /\ allSpans = <<>>
    /\ displayedSpansRange = [startTime |-> 15, endTime |-> 25]
    /\ nodeSpans = <<>>
    /\ fresh = TRUE
    /\ threw = FALSE

\* Math.min(...spans.map(span => span.startTime)) and Math.max(...) of the
\* end times, over the top-level spans: Infinity and -Infinity of none.
RECURSIVE MinStartTimeOf(_, _)
MinStartTimeOf(S, list) ==
    IF list = <<>> THEN Num(1, 0)
    ELSE MathMin(R(S[Head(list)].startTime), MinStartTimeOf(S, Tail(list)))

RECURSIVE MaxEndTimeOf(_, _)
MaxEndTimeOf(S, list) ==
    IF list = <<>> THEN Num(-1, 0)
    ELSE MathMax(R(S[Head(list)].endTime), MaxEndTimeOf(S, Tail(list)))

DataExtrema(S, top) ==
    [minStartTime |-> MinStartTimeOf(S, top), maxEndTime |-> MaxEndTimeOf(S, top)]

\* The render's re-initialisation of the state when the extrema of the
\* loaded file are not the stored ones.
\* The re-initialisation with the whole file as the selection.
Reinitialise_SelectsAll(tl, ex) ==
    IF ~NumEq(ex.minStartTime, tl.minStartTime) \/ ~NumEq(ex.maxEndTime, tl.maxEndTime)
    THEN [tl EXCEPT !.minStartTime = ex.minStartTime,
                    !.maxEndTime = ex.maxEndTime,
                    !.startTime = ex.minStartTime,
                    !.endTime = ex.maxEndTime,
                    !.selectedStart = ex.minStartTime,
                    !.selectedEnd = ex.maxEndTime]
    ELSE tl

Reinitialise(tl, ex) ==
    IF ~NumEq(ex.minStartTime, tl.minStartTime) \/ ~NumEq(ex.maxEndTime, tl.maxEndTime)
    THEN [tl EXCEPT !.minStartTime = ex.minStartTime,
                    !.maxEndTime = ex.maxEndTime,
                    !.startTime = ex.minStartTime,
                    !.endTime = ex.maxEndTime,
                    !.selectedStart = ex.minStartTime,
                    !.selectedEnd = MathMin(NumAdd(ex.minStartTime, R(1)), ex.maxEndTime)]
    ELSE tl

\* reader.onload: setTraceFile, then the render that parses the file,
\* re-initialises the timeline and lays out what the displayed range shows.
LoadTraceFile ==
    /\ traceFile = ""
    /\ ~threw
    /\ traceFile' = "loaded"
    /\ LET x == extractVisSpans(payload)
           r == LayoutPass(x.spans, x.top_level_spans, displayedSpansRange)
       IN  /\ spans' = r.S
           /\ allSpans' = x.top_level_spans
           /\ nodeSpans' = r.res
           /\ threw' = r.threw
           /\ fresh' = TRUE
           /\ extrema' = DataExtrema(x.spans, x.top_level_spans)
           /\ timelineState' = Reinitialise(timelineState, extrema')
    /\ lastEvent' = [name |-> "setTraceFile", button |-> 0]
    /\ UNCHANGED <<payload, displayedSpansRange, events, gesture>>
    /\ UNCHANGED debounceVars

\* The ranges the timeline's selection asks for: one instant, or all times.
DisplayedRanges == Instants \cup {<<0, MaxTime>>}

\* setDisplayedSpansRange with a new range, then the render that lays out
\* what the new range shows.
SetDisplayedSpansRange ==
    /\ traceFile # ""
    /\ ~threw
    /\ \E iv \in DisplayedRanges :
        /\ iv # <<displayedSpansRange.startTime, displayedSpansRange.endTime>>
        /\ displayedSpansRange' = [startTime |-> iv[1], endTime |-> iv[2]]
        /\ LET r == LayoutPass(spans, allSpans, displayedSpansRange')
           IN  /\ spans' = r.S
               /\ nodeSpans' = r.res
               /\ threw' = r.threw
               /\ fresh' = AllLevelsZero(spans)
    /\ UNCHANGED <<payload, traceFile, allSpans>>
    /\ UNCHANGED <<timelineVars, debounceVars>>

NextLayout == LoadTraceFile \/ SetDisplayedSpansRange

----------------------------------------------------------------------------
(* Properties of the span forest and of the layout                          *)

Loaded == traceFile # ""

\* The spans of the forest below the spans of a list, in the order they are
\* met, the spans of the list included.
RECURSIVE Forest(_, _)
Forest(S, list) ==
    IF list = <<>> THEN <<>>
    ELSE <<Head(list)>> \o Forest(S, S[Head(list)].children) \o Forest(S, Tail(list))

Occurrences(seq, x) == Cardinality({k \in 1..Len(seq) : seq[k] = x})

TimesOverlap(S, a, b) ==
    S[a].startTime <= S[b].endTime /\ S[b].startTime <= S[a].endTime

IsLeaf(S, x) == S[x].children = <<>>

Lanes == 1..Len(nodeSpans)

\* C1: two spans of a lane that overlap in time and are equally deep below
\* their roots are drawn at different rows, whatever the forest.
C1_NoOverlapAtEqualDepth ==
    \A k \in Lanes :
        \A a, b \in DrawNodeSpans(spans, nodeSpans[k]) :
            (a.span # b.span /\ a.depth = b.depth /\ TimesOverlap(spans, a.span, b.span))
                => a.row # b.row

\* C2: the forest extractVisSpans returns holds every span of the payload
\* exactly once.
C2_ForestHoldsEverySpanOnce ==
    Loaded =>
        /\ Len(Forest(spans, allSpans)) = Len(payload)
        /\ \A i \in 1..Len(payload) : Occurrences(Forest(spans, allSpans), i) = 1

\* C3: a span whose parent id is not empty and is the id of no span of the
\* payload is one of the top-level spans extractVisSpans returns.
IsOrphan(raw, i) ==
    /\ raw[i].parentSpanId # EmptyId
    /\ \A j \in 1..Len(raw) : raw[j].spanId # raw[i].parentSpanId

C3_OrphanIsTopLevel ==
    Loaded => \A i \in 1..Len(payload) : IsOrphan(payload, i) => i \in Range(allSpans)

\* C4: two overlapping leaf roots of a lane, laid out from fresh spans, end
\* with the first at level 0 and the second at level 1 in a lane of height 2.
TwoOverlappingLeaves(lane) ==
    /\ Len(lane.spans) = 2
    /\ IsLeaf(spans, lane.spans[1]) /\ IsLeaf(spans, lane.spans[2])
    /\ TimesOverlap(spans, lane.spans[1], lane.spans[2])

C4_OverlappingLeavesLevels ==
    \A k \in Lanes :
        (fresh /\ TwoOverlappingLeaves(nodeSpans[k])) =>
            /\ spans[nodeSpans[k].spans[1]].height_level = 0
            /\ spans[nodeSpans[k].spans[2]].height_level = 1
            /\ nodeSpans[k].bbox.height = 2

\* C5: leaf roots of a lane whose intervals are pairwise disjoint, laid out
\* from fresh spans, all keep level 0, and the lane has height 1.
DisjointLeaves(lane) ==
    /\ \A x \in Range(lane.spans) : IsLeaf(spans, x)
    /\ \A x, y \in Range(lane.spans) : x # y => ~TimesOverlap(spans, x, y)

C5_DisjointLeavesStayAtZero ==
    \A k \in Lanes :
        (fresh /\ DisjointLeaves(nodeSpans[k])) =>
            /\ \A x \in Range(nodeSpans[k].spans) : spans[x].height_level = 0
            /\ nodeSpans[k].bbox.height = 1

C5_Witness ==
    \E k \in Lanes :
        /\ fresh /\ DisjointLeaves(nodeSpans[k])
        /\ Len(nodeSpans[k].spans) >= 2
        /\ nodeSpans[k].bbox.height = 1

\* C6: arrangeSpan returns the span's own interval with height 1 for a leaf,
\* and for a span with children the box of arrangeSpans(children) widened
\* to the span's interval and one row higher. The box of a span with one
\* leaf child has height 2, and laid out from fresh spans as the only root
\* of its lane, the span and its child keep level 0.
ForestSpans == Range(Forest(spans, allSpans))

HasOneLeafChild(x) ==
    /\ Len(spans[x].children) = 1
    /\ IsLeaf(spans, spans[x].children[1])

ParentAndChildBox(A) ==
    LET B == spans[A].children[1]
    IN  SpanBoundingBox(Min(spans[A].startTime, spans[B].startTime),
                        Max(spans[A].endTime, spans[B].endTime), 2)

C6_ArrangeSpanBox ==
    /\ \A x \in ForestSpans :
        LET box == arrangeSpan(spans, x).bbox
            sub == arrangeSpans(spans, spans[x].children).bbox
        IN  /\ IsLeaf(spans, x) =>
                 box = SpanBoundingBox(spans[x].startTime, spans[x].endTime, 1)
            /\ ~IsLeaf(spans, x) =>
                 /\ box.start_time = Min(spans[x].startTime, sub.start_time)
                 /\ box.end_time = Max(spans[x].endTime, sub.end_time)
                 /\ box.height = sub.height + 1
            /\ HasOneLeafChild(x) => box = ParentAndChildBox(x)
    /\ \A k \in Lanes :
        (fresh /\ Len(nodeSpans[k].spans) = 1 /\ HasOneLeafChild(nodeSpans[k].spans[1])) =>
            LET A == nodeSpans[k].spans[1]
            IN  /\ nodeSpans[k].bbox = ParentAndChildBox(A)
                /\ spans[A].height_level = 0
                /\ spans[spans[A].children[1]].height_level = 0

\* A lane whose only root [0, 1] has one leaf child, after a pass.
C6_Witness ==
    \E k \in Lanes :
        /\ fresh /\ Len(nodeSpans[k].spans) = 1
        /\ HasOneLeafChild(nodeSpans[k].spans[1])
        /\ nodeSpans[k].bbox = SpanBoundingBox(0, 1, 2)

\* C7: the box of a lane starts at the least startTime and ends at the
\* greatest endTime of the spans of the lane, descendants included.
LaneSpans(lane) == {d.span : d \in DrawNodeSpans(spans, lane)}

C7_LaneBoxCoversItsSpans ==
    \A k \in Lanes :
        LET in == LaneSpans(nodeSpans[k])
        IN  /\ \E x \in in : nodeSpans[k].bbox.start_time = spans[x].startTime
            /\ \A x \in in : nodeSpans[k].bbox.start_time <= spans[x].startTime
            /\ \E x \in in : nodeSpans[k].bbox.end_time = spans[x].endTime
            /\ \A x \in in : nodeSpans[k].bbox.end_time >= spans[x].endTime

\* A lane in which a child starts before and ends after every root.
C7_Witness ==
    \E k \in Lanes :
        \E x \in LaneSpans(nodeSpans[k]) :
            /\ \A r \in Range(nodeSpans[k].spans) :
                  spans[x].startTime < spans[r].startTime
            /\ nodeSpans[k].bbox.start_time = spans[x].startTime

\* C8: every children list and every lane's list of roots is in ascending
\* startTime order, spans of equal startTime in the order of the payload.
SortedStable(S, list) ==
    \A a, b \in 1..Len(list) :
        a < b => /\ S[list[a]].startTime <= S[list[b]].startTime
                 /\ S[list[a]].startTime = S[list[b]].startTime => list[a] < list[b]

C8_ListsSortedByStartTime ==
    /\ \A i \in 1..Len(spans) : SortedStable(spans, spans[i].children)
    /\ \A k \in Lanes : SortedStable(spans, nodeSpans[k].spans)

\* A children list the sort has reordered, beside a lane.
C8_Witness ==
    /\ \E i \in 1..Len(spans) :
          \E a, b \in 1..Len(spans[i].children) :
              a < b /\ spans[i].children[a] > spans[i].children[b]
    /\ Lanes # {}


\* C16: every root that getNodeSpans is given is in exactly one lane, the
\* lane named by the service.name of its resource, or "service.name
\* missing" without one; no two lanes have the same name, and the lanes are
\* in ascending order of their names.
SpansToDisplay ==
    getSpansForTimeRange(spans, allSpans,
                         displayedSpansRange.startTime, displayedSpansRange.endTime)

NameIndex(name) == CHOOSE k \in 1..Len(LaneNames) : LaneNames[k] = name

C16_LanesPartitionTheRoots ==
    Loaded =>
        /\ \A x \in Range(SpansToDisplay) :
              /\ Cardinality({k \in Lanes : Occurrences(nodeSpans[k].spans, x) = 1}) = 1
              /\ \A k \in Lanes :
                    Occurrences(nodeSpans[k].spans, x) # 0
                        => /\ Occurrences(nodeSpans[k].spans, x) = 1
                           /\ nodeSpans[k].node = ServiceName(spans[x])
        /\ \A k \in Lanes : Range(nodeSpans[k].spans) \subseteq Range(SpansToDisplay)
        /\ \A j, k \in Lanes :
              j < k => NameIndex(nodeSpans[j].node) < NameIndex(nodeSpans[k].node)


\* C17: of no spans arrangeSpans returns the box {0, 0, 0} and getNodeSpans
\* no lanes, and neither fails.
C17_NothingOfNothing ==
    /\ arrangeSpans(spans, <<>>) = [S |-> spans, bbox |-> SpanBoundingBox(0, 0, 0)]
    /\ getNodeSpans(spans, <<>>) = [S |-> spans, res |-> <<>>, threw |-> FALSE]
    /\ (Loaded /\ SpansToDisplay = <<>>) => (nodeSpans = <<>> /\ ~threw)

\* A file with top-level spans none of which is in the displayed range.
C17_Witness ==
    /\ Loaded
    /\ allSpans # <<>>
    /\ SpansToDisplay = <<>>
    /\ nodeSpans = <<>>

\* C19: after arrangeSpans no two spans of the list collide: two siblings
\* whose own intervals overlap have level ranges, from height_level over the
\* height of the sibling's box, that do not overlap.
ArrangedLists ==
    {nodeSpans[k].spans : k \in Lanes}
    \cup {spans[x].children : x \in UNION {LaneSpans(nodeSpans[k]) : k \in Lanes}}

LevelsOverlap(S, a, b) ==
    isCollidingInAxis(S[a].height_level, S[a].height_level + arrangeSpan(S, a).bbox.height,
                      S[b].height_level, S[b].height_level + arrangeSpan(S, b).bbox.height)

C19_NoSiblingsCollide ==
    \A list \in ArrangedLists :
        \A i, j \in 1..Len(list) :
            (i # j /\ TimesOverlap(spans, list[i], list[j]))
                => ~LevelsOverlap(spans, list[i], list[j])

\* Two siblings that overlap, the later of them moved off level 0.
C19_Witness ==
    \E list \in ArrangedLists :
        \E i, j \in 1..Len(list) :
            /\ i < j
            /\ TimesOverlap(spans, list[i], list[j])
            /\ spans[list[j]].height_level > 0

\* C20: a layout pass ends: no span is met twice in the forest, no
\* height_level decreases, and the loop of a span stops at the latest one
\* level above the boxes of the siblings before it.
RECURSIVE BumpBound(_, _, _)
BumpBound(S, list, i) ==
    IF i <= 1 THEN 0
    ELSE Max(BumpBound(S, list, i - 1),
             S[list[i - 1]].height_level + arrangeSpan(S, list[i - 1]).bbox.height + 1)

ChildrenOf(S, set) == UNION {Range(S[p].children) : p \in set}

RECURSIVE DescendantsWithin(_, _, _)
DescendantsWithin(S, set, n) ==
    IF n = 0 THEN set
    ELSE DescendantsWithin(S, set \cup ChildrenOf(S, set), n - 1)

DescendantsOf(S, x) == DescendantsWithin(S, ChildrenOf(S, {x}), Len(S))

PlacesInChildren(S, x) ==
    {pk \in (1..Len(S)) \X (1..Len(S)) :
        pk[2] <= Len(S[pk[1]].children) /\ S[pk[1]].children[pk[2]] = x}

C21_ChildRelationAcyclic ==
    Loaded =>
        \A x \in 1..Len(spans) :
            /\ Cardinality(PlacesInChildren(spans, x)) <= 1
            /\ x \notin DescendantsOf(spans, x)

\* C22: for intervals with begin <= end, isCollidingInAxis is true exactly
\* when the closed intervals share a point; it is symmetric, and intervals
\* that touch at one boundary point collide. Stated for the intervals the
\* program applies it to: the times of the loaded spans, the displayed
\* range, and the rows that the spans and their boxes take.
AxisIntervals ==
    {<<spans[x].startTime, spans[x].endTime>> : x \in 1..Len(spans)}
    \cup {<<displayedSpansRange.startTime, displayedSpansRange.endTime>>}
    \cup {<<spans[x].height_level,
            spans[x].height_level + arrangeSpan(spans, x).bbox.height>> :
              x \in UNION {Range(nodeSpans[k].spans) : k \in Lanes}}

SharePoint(b1, e1, b2, e2) == (b1..e1) \cap (b2..e2) # {}

C22_CollidingInAxisIsClosedOverlap ==
    \A i1, i2 \in AxisIntervals :
        (i1[1] <= i1[2] /\ i2[1] <= i2[2]) =>
            /\ isCollidingInAxis(i1[1], i1[2], i2[1], i2[2])
                  <=> (i1[1] <= i2[2] /\ i2[1] <= i1[2])
            /\ isCollidingInAxis(i1[1], i1[2], i2[1], i2[2])
                  <=> SharePoint(i1[1], i1[2], i2[1], i2[2])
            /\ isCollidingInAxis(i1[1], i1[2], i2[1], i2[2])
                  <=> isCollidingInAxis(i2[1], i2[2], i1[1], i1[2])
            /\ i1[2] = i2[1] => isCollidingInAxis(i1[1], i1[2], i2[1], i2[2])

\* Two roots of a lane of which the first ends when the second starts, and
\* starts earlier: the layout has found them colliding and moved the second.
C22_Witness ==
    \E k \in Lanes :
        \E i, j \in 1..Len(nodeSpans[k].spans) :
            LET a == spans[nodeSpans[k].spans[i]]
                b == spans[nodeSpans[k].spans[j]]
            IN  /\ i < j
                /\ a.startTime < a.endTime
                /\ a.endTime = b.startTime
                /\ b.height_level > a.height_level

\* C28: the lanes and the levels of the spans they show are those of a
\* layout pass over the same spans with every height_level at 0, whatever
\* passes came before.
ResetLevels(S) == [i \in 1..Len(S) |-> [S[i] EXCEPT !.height_level = 0]]

FirstPass == LayoutPass(ResetLevels(spans), allSpans, displayedSpansRange)

C28_LayoutIsHistoryIndependent ==
    (Loaded /\ ~threw) =>
        /\ nodeSpans = FirstPass.res
        /\ \A k \in Lanes :
              \A x \in LaneSpans(nodeSpans[k]) :
                  spans[x].height_level = FirstPass.S[x].height_level

----------------------------------------------------------------------------
(* TimelineState and the time/screen maps                                  *)

\* new TimelineState()
NewTimelineState ==
    [startTime |-> R(10), endTime |-> R(30),
     selectedStart |-> R(15), selectedEnd |-> R(25),
     minStartTime |-> R(0), maxEndTime |-> R(40),
     action |-> "None", deltaX |-> R(0), notDraggedEdgeTime |-> R(0)]

screenToTime(screenX, timeline, windowWidth) ==
    NumAdd(timeline.startTime,
           NumMul(NumDiv(screenX, windowWidth),
                  NumSub(timeline.endTime, timeline.startTime)))

\* timeToScreen that forgets where the window starts.
timeToScreen_FromZero(time, timeline, windowWidth) ==
    NumMul(NumDiv(time, NumSub(timeline.endTime, timeline.startTime)), windowWidth)

timeToScreen(time, timeline, windowWidth) ==
    NumMul(NumDiv(NumSub(time, timeline.startTime),
                  NumSub(timeline.endTime, timeline.startTime)),
           windowWidth)

\* PARAMS.endBarWidth
endBarWidth == 10

\* window.innerWidth: the browser window is 40 pixels wide.
WindowWidth == 40

\* The pixels the pointer is seen at, and the buttons of a mouse event.
ClientXs ==
    {0, WindowWidth \div 4, WindowWidth \div 2, (3 * WindowWidth) \div 4, WindowWidth}

Buttons == {0, 2}

\* e.deltaY of the wheel events: 1 + deltaY * 0.001 is 2, 1/2, 0 and -1.
DeltaYs == {1000, -500, -1000, -2000}

\* The extrema of the files the user can load: the least startTime and the
\* greatest endTime of the top-level spans.
FileExtrema ==
    {[minStartTime |-> R(0), maxEndTime |-> R(4)],
     [minStartTime |-> R(2), maxEndTime |-> Num(5, 2)],
     [minStartTime |-> R(2), maxEndTime |-> R(2)],
     [minStartTime |-> R(0), maxEndTime |-> R(40)],
     [minStartTime |-> Num(1, 0), maxEndTime |-> Num(-1, 0)]}

----------------------------------------------------------------------------
(* The Timeline component: where its bars are                               *)

selectedStartX(tl) == timeToScreen(tl.selectedStart, tl, R(WindowWidth))

selectedEndX(tl) == timeToScreen(tl.selectedEnd, tl, R(WindowWidth))

selectedWidth(tl) == NumSub(selectedEndX(tl), selectedStartX(tl))

middleBarWidth(tl) == MathMax(NumSub(selectedWidth(tl), R(endBarWidth)), R(0))

Within(x, left, width) ==
    /\ IsFinite(left) /\ IsFinite(width)
    /\ NumLe(left, x) /\ NumLe(x, NumAdd(left, width))

OnRightBar(tl, x) ==
    Within(x, NumSub(NumAdd(selectedStartX(tl), selectedWidth(tl)),
                     Num(endBarWidth, 2)), R(endBarWidth))

OnLeftBar(tl, x) ==
    Within(x, NumSub(selectedStartX(tl), Num(endBarWidth, 2)), R(endBarWidth))

OnMiddleBar(tl, x) ==
    /\ NumLt(R(0), middleBarWidth(tl))
    /\ Within(x, NumAdd(selectedStartX(tl), Num(endBarWidth, 2)), middleBarWidth(tl))

\* The element a button-down at pixel x goes to: the bars are drawn in the
\* order middle, left, right, a later one above an earlier one.
Target(tl, x) ==
    IF OnRightBar(tl, x) THEN "rightBar"
    ELSE IF OnLeftBar(tl, x) THEN "leftBar"
    ELSE IF OnMiddleBar(tl, x) THEN "middleBar"
    ELSE "background"

----------------------------------------------------------------------------
(* The handlers: each is the state the handler sets from the state of the   *)
(* render it was made in                                                    *)

\* onMouseMove that takes the dragged edge for the start of the selection
\* and the other edge for its end, without Math.min and Math.max.
onMouseMove_NoCrossing(tl, mouseX) ==
    IF tl.action = "DraggingEdge"
    THEN LET draggedEdgeTime ==
                 screenToTime(NumSub(mouseX, tl.deltaX), tl, R(WindowWidth))
         IN  [tl EXCEPT !.selectedStart = draggedEdgeTime,
                        !.selectedEnd = tl.notDraggedEdgeTime]
    ELSE IF tl.action = "DraggingMiddle"
    THEN LET newSelectedStart ==
                 screenToTime(NumSub(mouseX, tl.deltaX), tl, R(WindowWidth))
         IN  [tl EXCEPT !.selectedStart = newSelectedStart,
                        !.selectedEnd = NumAdd(newSelectedStart,
                                               NumSub(tl.selectedEnd, tl.selectedStart))]
    ELSE tl

\* onMouseMove that moves the start of a selection dragged by its middle
\* and leaves its end.
onMouseMove_StartOnly(tl, mouseX) ==
    IF tl.action = "DraggingEdge"
    THEN LET draggedEdgeTime ==
                 screenToTime(NumSub(mouseX, tl.deltaX), tl, R(WindowWidth))
         IN  [tl EXCEPT !.selectedStart = MathMin(draggedEdgeTime, tl.notDraggedEdgeTime),
                        !.selectedEnd = MathMax(draggedEdgeTime, tl.notDraggedEdgeTime)]
    ELSE IF tl.action = "DraggingMiddle"
    THEN [tl EXCEPT !.selectedStart =
                        screenToTime(NumSub(mouseX, tl.deltaX), tl, R(WindowWidth))]
    ELSE tl

onMouseMove(tl, mouseX) ==
    IF tl.action = "DraggingEdge"
    THEN LET draggedEdgeTime ==
                 screenToTime(NumSub(mouseX, tl.deltaX), tl, R(WindowWidth))
         IN  [tl EXCEPT !.selectedStart = MathMin(draggedEdgeTime, tl.notDraggedEdgeTime),
                        !.selectedEnd = MathMax(draggedEdgeTime, tl.notDraggedEdgeTime)]
    ELSE IF tl.action = "DraggingMiddle"
    THEN LET newSelectedStart ==
                 screenToTime(NumSub(mouseX, tl.deltaX), tl, R(WindowWidth))
         IN  [tl EXCEPT !.selectedStart = newSelectedStart,
                        !.selectedEnd = NumAdd(newSelectedStart,
                                               NumSub(tl.selectedEnd, tl.selectedStart))]
    ELSE tl

\* onMouseUp that forgets the offset of the gesture as well.
onMouseUp_ClearsDeltaX(tl) == [tl EXCEPT !.action = "None", !.deltaX = R(0)]

onMouseUp(tl) == [tl EXCEPT !.action = "None"]

\* leftBarOnMouseDown without its test of the action.
leftBarOnMouseDown_NoActionTest(tl, button, clientX) ==
    IF button # 0 THEN tl
    ELSE [tl EXCEPT !.action = "DraggingEdge",
                    !.deltaX = NumSub(clientX, selectedStartX(tl)),
                    !.notDraggedEdgeTime = tl.selectedEnd]

leftBarOnMouseDown(tl, button, clientX) ==
    IF button # 0 THEN tl
    ELSE IF tl.action # "None" THEN tl
    ELSE [tl EXCEPT !.action = "DraggingEdge",
                    !.deltaX = NumSub(clientX, selectedStartX(tl)),
                    !.notDraggedEdgeTime = tl.selectedEnd]

rightBarOnMouseDown(tl, button, clientX) ==
    IF button # 0 THEN tl
    ELSE IF tl.action # "None" THEN tl
    ELSE [tl EXCEPT !.action = "DraggingEdge",
                    !.deltaX = NumSub(clientX, selectedEndX(tl)),
                    !.notDraggedEdgeTime = tl.selectedStart]

middleBarOnMouseDown(tl, button, clientX) ==
    IF button # 0 THEN tl
    ELSE IF tl.action # "None" THEN tl
    ELSE [tl EXCEPT !.action = "DraggingMiddle",
                    !.deltaX = NumSub(clientX, selectedStartX(tl))]

\* backgroundOnMouseDown without the click as the edge that stays.
backgroundOnMouseDown_NoFixedEdge(tl, button, clientX) ==
    IF button # 0 THEN tl
    ELSE IF tl.action # "None" THEN tl
    ELSE LET clickedTime == screenToTime(clientX, tl, R(WindowWidth))
         IN  [tl EXCEPT !.action = "DraggingEdge",
                        !.selectedStart = clickedTime,
                        !.selectedEnd = clickedTime,
                        !.deltaX = R(0)]

backgroundOnMouseDown(tl, button, clientX) ==
    IF button # 0 THEN tl
    ELSE IF tl.action # "None" THEN tl
    ELSE LET clickedTime == screenToTime(clientX, tl, R(WindowWidth))
         IN  [tl EXCEPT !.action = "DraggingEdge",
                        !.selectedStart = clickedTime,
                        !.selectedEnd = clickedTime,
                        !.deltaX = R(0),
                        !.notDraggedEdgeTime = clickedTime]

\* timelineScrollHandler that ends the gesture in progress as well.
timelineScrollHandler_EndsGesture(tl, clientX, deltaY) ==
    LET mouseTime == screenToTime(clientX, tl, R(WindowWidth))
        scrollAmount == NumMul(deltaY, Num(1, 1000))
        currentLength == NumSub(tl.endTime, tl.startTime)
        newLength == NumMul(currentLength, NumAdd(R(1), scrollAmount))
        newStart == NumSub(mouseTime,
                           NumDiv(NumMul(NumSub(mouseTime, tl.startTime), newLength),
                                  currentLength))
        newEnd == NumAdd(newStart, newLength)
    IN  [tl EXCEPT !.startTime = MathMax(tl.minStartTime, newStart),
                   !.endTime = MathMin(tl.maxEndTime, newEnd),
                   !.action = "None"]

\* timelineScrollHandler that zooms about the start of the window instead
\* of the time under the cursor.
timelineScrollHandler_AboutStart(tl, clientX, deltaY) ==
    LET scrollAmount == NumMul(deltaY, Num(1, 1000))
        currentLength == NumSub(tl.endTime, tl.startTime)
        newLength == NumMul(currentLength, NumAdd(R(1), scrollAmount))
        newStart == tl.startTime
        newEnd == NumAdd(newStart, newLength)
    IN  [tl EXCEPT !.startTime = MathMax(tl.minStartTime, newStart),
                   !.endTime = MathMin(tl.maxEndTime, newEnd)]

timelineScrollHandler(tl, clientX, deltaY) ==
    LET mouseTime == screenToTime(clientX, tl, R(WindowWidth))
        speedFactor == Num(1, 1000)
        scrollAmount == NumMul(deltaY, speedFactor)
        currentLength == NumSub(tl.endTime, tl.startTime)
        newLength == NumMul(currentLength, NumAdd(R(1), scrollAmount))
        newStart == NumSub(mouseTime,
                           NumDiv(NumMul(NumSub(mouseTime, tl.startTime), newLength),
                                  currentLength))
        newEnd == NumAdd(newStart, newLength)
    IN  [tl EXCEPT !.startTime = MathMax(tl.minStartTime, newStart),
                   !.endTime = MathMin(tl.maxEndTime, newEnd)]

----------------------------------------------------------------------------
(* The events of the timeline                                               *)

\* The record of a gesture that a primary-button-down on the background
\* began with action None: T is the time of the click, U the time the last
\* pointer position maps to (T before any move), phase "selecting" until
\* the button-up and "done" after it. Any other event ends the record.
NoGesture == [phase |-> "idle", T |-> R(0), U |-> R(0)]

GestureAfterDown(tl, button, clientX) ==
    IF button = 0 /\ tl.action = "None"
    THEN LET T == screenToTime(clientX, tl, R(WindowWidth))
         IN  [phase |-> "selecting", T |-> T, U |-> T]
    ELSE NoGesture

GestureAfterMove(tl, mouseX) ==
    IF gesture.phase = "selecting"
    THEN [gesture EXCEPT !.U = screenToTime(mouseX, tl, R(WindowWidth))]
    ELSE NoGesture

GestureAfterUp ==
    IF gesture.phase = "selecting"
    THEN [gesture EXCEPT !.phase = "done"]
    ELSE NoGesture

InitTimeline ==
    /\ timelineState = NewTimelineState
    /\ extrema = [minStartTime |-> NewTimelineState.minStartTime,
                  maxEndTime |-> NewTimelineState.maxEndTime]
    /\ lastEvent = [name |-> "none", button |-> 0]
    /\ events = 0
    /\ gesture = NoGesture

InitNoFile ==
    /\ payload = <<>>
    /\ traceFile = ""
    /\ spans = <<>>
    /\ allSpans = <<>>
    /\ displayedSpansRange = [startTime |-> 15, endTime |-> 25]
    /\ nodeSpans = <<>>
    /\ fresh = TRUE
    /\ threw = FALSE

\* A button-down on one of the bars: the bar's handler, which stops the
\* event when it starts a gesture; an event it does not stop goes on to the
\* handler of the background, which returns at the same test.
LeftBarMouseDown ==
    \E x \in ClientXs, button \in Buttons :
        /\ events < MaxEvents
        /\ Target(timelineState, R(x)) = "leftBar"
        /\ timelineState' = leftBarOnMouseDown(timelineState, button, R(x))
        /\ lastEvent' = [name |-> "leftBarOnMouseDown", button |-> button]
        /\ gesture' = NoGesture
        /\ events' = events + 1
        /\ UNCHANGED <<extrema, traceFile>>
        /\ UNCHANGED <<layoutVars, debounceVars>>

RightBarMouseDown ==
    \E x \in ClientXs, button \in Buttons :
        /\ events < MaxEvents
        /\ Target(timelineState, R(x)) = "rightBar"
        /\ timelineState' = rightBarOnMouseDown(timelineState, button, R(x))
        /\ lastEvent' = [name |-> "rightBarOnMouseDown", button |-> button]
        /\ gesture' = NoGesture
        /\ events' = events + 1
        /\ UNCHANGED <<extrema, traceFile>>
        /\ UNCHANGED <<layoutVars, debounceVars>>

MiddleBarMouseDown ==
    \E x \in ClientXs, button \in Buttons :
        /\ events < MaxEvents
        /\ Target(timelineState, R(x)) = "middleBar"
        /\ timelineState' = middleBarOnMouseDown(timelineState, button, R(x))
        /\ lastEvent' = [name |-> "middleBarOnMouseDown", button |-> button]
        /\ gesture' = NoGesture
        /\ events' = events + 1
        /\ UNCHANGED <<extrema, traceFile>>
        /\ UNCHANGED <<layoutVars, debounceVars>>

BackgroundMouseDown ==
    \E x \in ClientXs, button \in Buttons :
        /\ events < MaxEvents
        /\ Target(timelineState, R(x)) = "background"
        /\ timelineState' = backgroundOnMouseDown(timelineState, button, R(x))
        /\ lastEvent' = [name |-> "backgroundOnMouseDown", button |-> button]
        /\ gesture' = GestureAfterDown(timelineState, button, R(x))
        /\ events' = events + 1
        /\ UNCHANGED <<extrema, traceFile>>
        /\ UNCHANGED <<layoutVars, debounceVars>>

MouseMove ==
    \E x \in ClientXs :
        /\ events < MaxEvents
        /\ timelineState' = onMouseMove(timelineState, R(x))
        /\ lastEvent' = [name |-> "onMouseMove", button |-> 0]
        /\ gesture' = GestureAfterMove(timelineState, R(x))
        /\ events' = events + 1
        /\ UNCHANGED <<extrema, traceFile>>
        /\ UNCHANGED <<layoutVars, debounceVars>>

MouseUp ==
    /\ events < MaxEvents
    /\ timelineState' = onMouseUp(timelineState)
    /\ lastEvent' = [name |-> "onMouseUp", button |-> 0]
    /\ gesture' = GestureAfterUp
    /\ events' = events + 1
    /\ UNCHANGED <<extrema, traceFile>>
    /\ UNCHANGED <<layoutVars, debounceVars>>

Wheel ==
    \E x \in ClientXs, deltaY \in DeltaYs :
        /\ events < MaxEvents
        /\ events' = events + 1
        /\ timelineState' = timelineScrollHandler(timelineState, R(x), R(deltaY))
        /\ lastEvent' = [name |-> "timelineScrollHandler", button |-> 0]
        /\ gesture' = NoGesture
        /\ UNCHANGED <<extrema, traceFile>>
        /\ UNCHANGED <<layoutVars, debounceVars>>

\* reader.onload with another file: the render computes the extrema of the
\* file and re-initialises the state.
LoadExtrema ==
    \E ex \in FileExtrema :
        /\ events < MaxEvents
        /\ traceFile = ""
        /\ events' = events + 1
        /\ traceFile' = "loaded"
        /\ extrema' = ex
        /\ timelineState' = Reinitialise(timelineState, ex)
        /\ lastEvent' = [name |-> "setTraceFile", button |-> 0]
        /\ gesture' = NoGesture
        /\ UNCHANGED <<layoutVars, debounceVars>>

NextTimeline ==
    \/ LeftBarMouseDown
    \/ RightBarMouseDown
    \/ MiddleBarMouseDown
    \/ BackgroundMouseDown
    \/ MouseMove
    \/ MouseUp
    \/ Wheel
    \/ LoadExtrema

----------------------------------------------------------------------------
(* The debounce effect: displayedSpansRange follows the selection           *)

\* updateDisplayedSpansRangePeriod, in ms
updateDisplayedSpansRangePeriod == 100

\* Date.now() is read every 50 ms.
ClockStep == 50

\* What a run of the effect returns: nothing, () => { }, or
\* () => clearTimeout(scheduledUpdate).
NoCleanup == [kind |-> "none", id |-> 0]

NoopCleanup == [kind |-> "noop", id |-> 0]

ClearTimeout(id) == [kind |-> "clearTimeout", id |-> id]

\* { startTime: timelineState.selectedStart, endTime: timelineState.selectedEnd }
Selection(tl) == [startTime |-> tl.selectedStart, endTime |-> tl.selectedEnd]

\* The effect's clean-up that leaves the timer of the last run pending.
RunCleanup_Nothing(tms, cln) == tms

\* React runs the clean-up of the last run before it runs the effect again.
RunCleanup(tms, cln) ==
    IF cln.kind = "clearTimeout" THEN {tm \in tms : tm.id # cln.id} ELSE tms

\* The timer that a run of the effect cancels (0: none); kept in the timer
\* that replaces it, as history.
Cancelled(tms, cln) ==
    IF cln.kind = "clearTimeout" /\ \E tm \in tms : tm.id = cln.id THEN cln.id ELSE 0

\* The effect without the scheduled update.
RECURSIVE DebounceEffect_NoTimer(_, _, _)
DebounceEffect_NoTimer(d, tl, nowv) ==
    LET tms == RunCleanup(d.timers, d.cleanup)
        run == d.runs + 1
    IN  IF /\ NumEq(d.range.startTime, tl.selectedStart)
           /\ NumEq(d.range.endTime, tl.selectedEnd)
        THEN [d EXCEPT !.timers = tms, !.cleanup = NoCleanup, !.runs = run]
        ELSE IF nowv - d.last >= updateDisplayedSpansRangePeriod
        THEN DebounceEffect_NoTimer([range |-> Selection(tl), last |-> nowv, timers |-> tms,
                                     cleanup |-> NoopCleanup, runs |-> run], tl, nowv)
        ELSE [d EXCEPT !.timers = tms, !.cleanup = NoCleanup, !.runs = run]

\* The effect with a scheduled update that is due one period after the run
\* that schedules it.
RECURSIVE DebounceEffect_FromLastChange(_, _, _)
DebounceEffect_FromLastChange(d, tl, nowv) ==
    LET tms == RunCleanup(d.timers, d.cleanup)
        run == d.runs + 1
    IN  IF /\ NumEq(d.range.startTime, tl.selectedStart)
           /\ NumEq(d.range.endTime, tl.selectedEnd)
        THEN [d EXCEPT !.timers = tms, !.cleanup = NoCleanup, !.runs = run]
        ELSE IF nowv - d.last >= updateDisplayedSpansRangePeriod
        THEN DebounceEffect_FromLastChange(
                 [range |-> Selection(tl), last |-> nowv, timers |-> tms,
                  cleanup |-> NoopCleanup, runs |-> run], tl, nowv)
        ELSE [d EXCEPT !.timers = tms \cup {[id |-> run,
                                             due |-> nowv + updateDisplayedSpansRangePeriod,
                                             range |-> Selection(tl),
                                             replaces |-> Cancelled(d.timers, d.cleanup)]},
                       !.cleanup = ClearTimeout(run),
                       !.runs = run]

\* A run of the effect after a render, from d = the displayed range, the
\* ref, the pending timers, the last clean-up and the number of runs. The
\* setDisplayedSpansRange of the effect causes a render, and so another run.
RECURSIVE DebounceEffect(_, _, _)
DebounceEffect(d, tl, nowv) ==
    LET tms == RunCleanup(d.timers, d.cleanup)
        run == d.runs + 1
    IN  IF /\ NumEq(d.range.startTime, tl.selectedStart)
           /\ NumEq(d.range.endTime, tl.selectedEnd)
        THEN [d EXCEPT !.timers = tms, !.cleanup = NoCleanup, !.runs = run]
        ELSE IF nowv - d.last >= updateDisplayedSpansRangePeriod
        THEN DebounceEffect([range |-> Selection(tl), last |-> nowv, timers |-> tms,
                             cleanup |-> NoopCleanup, runs |-> run], tl, nowv)
        ELSE [d EXCEPT !.timers = tms \cup {[id |-> run,
                                             due |-> d.last + updateDisplayedSpansRangePeriod,
                                             range |-> Selection(tl),
                                             replaces |-> Cancelled(d.timers, d.cleanup)]},
                       !.cleanup = ClearTimeout(run),
                       !.runs = run]

Debounced ==
    [range |-> displayedSpansRange, last |-> lastUpdatedDisplayedSpansRange,
     timers |-> timers, cleanup |-> cleanup, runs |-> effectRuns]

ApplyDebounce(d) ==
    /\ displayedSpansRange' = d.range
    /\ lastUpdatedDisplayedSpansRange' = d.last
    /\ timers' = d.timers
    /\ cleanup' = d.cleanup
    /\ effectRuns' = d.runs

\* The component is mounted at time 0 and its effect has run once, with the
\* displayed range equal to the selection.
InitDebounce ==
    /\ now = 0
    /\ lastUpdatedDisplayedSpansRange = 0
    /\ timers = {}
    /\ cleanup = NoCleanup
    /\ effectRuns = 1

\* The selections that the handlers of the timeline set.
Selections ==
    {<<R(15), R(25)>>, <<R(0), R(1)>>, <<NaN, NaN>>}

\* A handler sets a state with another selection; the render runs the effect.
\* No file is loaded, so the layout of the displayed range is empty.
SetSelection ==
    \E sel \in Selections :
        /\ sel # <<timelineState.selectedStart, timelineState.selectedEnd>>
        /\ now < ClockStep * MaxTicks
        /\ effectRuns < MaxEffectRuns
        /\ timelineState' = [timelineState EXCEPT !.selectedStart = sel[1],
                                                  !.selectedEnd = sel[2]]
        /\ ApplyDebounce(DebounceEffect(Debounced, timelineState', now))
        /\ lastEvent' = [name |-> "setTimelineState", button |-> 0]
        /\ UNCHANGED <<payload, traceFile, spans, allSpans, nodeSpans, fresh, threw>>
        /\ UNCHANGED <<extrema, events, gesture, now>>

\* A render with the selection as it was.
Rerender ==
    /\ now < ClockStep * MaxTicks
    /\ effectRuns < MaxEffectRuns
    /\ ApplyDebounce(DebounceEffect(Debounced, timelineState, now))
    /\ lastEvent' = [name |-> "render", button |-> 0]
    /\ UNCHANGED <<payload, traceFile, spans, allSpans, nodeSpans, fresh, threw>>
    /\ UNCHANGED <<timelineState, extrema, events, gesture, now>>

\* Time passes.
Tick ==
    /\ now < ClockStep * MaxTicks + updateDisplayedSpansRangePeriod
    /\ now' = now + ClockStep
    /\ UNCHANGED <<layoutVars, traceFile, timelineVars>>
    /\ UNCHANGED <<lastUpdatedDisplayedSpansRange, timers, cleanup, effectRuns>>

\* A pending timer fires, no earlier than it is due: its callback sets the
\* displayed range to the selection of the render that scheduled it and
\* the ref to the time; the render that follows runs the effect.
TimerFires ==
    \E tm \in timers :
        /\ tm.due <= now
        /\ ApplyDebounce(DebounceEffect([Debounced EXCEPT !.range = tm.range,
                                                          !.last = now,
                                                          !.timers = timers \ {tm}],
                                        timelineState, now))
        /\ lastEvent' = [name |-> "scheduledUpdate", button |-> 0]
        /\ UNCHANGED <<payload, traceFile, spans, allSpans, nodeSpans, fresh, threw>>
        /\ UNCHANGED <<timelineState, extrema, events, gesture, now>>

NextDebounce == SetSelection \/ Rerender \/ Tick \/ TimerFires

----------------------------------------------------------------------------
(* The specifications                                                       *)

\* Loading a payload and laying out displayed ranges of it.
Init == InitLayout /\ InitTimeline /\ InitDebounce

Spec == Init /\ [][NextLayout]_vars

\* The events of the timeline, with no spans to lay out.
InitOfTimeline == InitNoFile /\ InitTimeline /\ InitDebounce

SpecTimeline == InitOfTimeline /\ [][NextTimeline]_vars

\* The debounce effect, with no file loaded; time passes and a timer that
\* is due fires.
InitOfDebounce ==
    /\ payload = <<>>
    /\ traceFile = ""
    /\ spans = <<>>
    /\ allSpans = <<>>
    /\ displayedSpansRange = Selection(NewTimelineState)
    /\ nodeSpans = <<>>
    /\ fresh = TRUE
    /\ threw = FALSE
    /\ InitTimeline
    /\ InitDebounce

SpecDebounce ==
    /\ InitOfDebounce
    /\ [][NextDebounce]_vars
    /\ WF_vars(Tick)
    /\ WF_vars(TimerFires)

----------------------------------------------------------------------------
(* Properties of the timeline                                               *)

\* C9: in every state both ends of the window lie between minStartTime and
\* maxEndTime.
C9_WindowInsideExtrema ==
    /\ NumLe(timelineState.minStartTime, timelineState.startTime)
    /\ NumLe(timelineState.startTime, timelineState.maxEndTime)
    /\ NumLe(timelineState.minStartTime, timelineState.endTime)
    /\ NumLe(timelineState.endTime, timelineState.maxEndTime)

\* C10: a button-down on a bar or on the background during a gesture leaves
\* the state as it is, and a gesture starts from action None only.
MouseDownHandlers ==
    {"leftBarOnMouseDown", "rightBarOnMouseDown", "middleBarOnMouseDown",
     "backgroundOnMouseDown"}

C10_OneGestureAtATime ==
    [][/\ (timelineState.action # "None" /\ lastEvent'.name \in MouseDownHandlers)
            => timelineState' = timelineState
       /\ (timelineState'.action # "None" /\ timelineState'.action # timelineState.action)
            => timelineState.action = "None"]_vars

\* A primary-button-down on the left bar while the middle is dragged.
C10_Witness ==
    /\ lastEvent = [name |-> "leftBarOnMouseDown", button |-> 0]
    /\ timelineState.action = "DraggingMiddle"

C12_MouseUpEndsTheGesture ==
    [][/\ lastEvent'.name = "onMouseUp"
            => timelineState' = [timelineState EXCEPT !.action = "None"]
       /\ (lastEvent'.name = "onMouseMove" /\ timelineState.action = "None")
            => timelineState' = timelineState]_vars

\* A pointer move after the button-up that ended a gesture begun on a bar.
C12_Witness ==
    /\ lastEvent.name = "onMouseMove"
    /\ timelineState.action = "None"
    /\ ~NumEq(timelineState.deltaX, R(0))

\* C15: when the extrema of the loaded file are not the stored ones, the
\* state afterwards has the file's extrema as minStartTime and maxEndTime,
\* the window [minStartTime, maxEndTime], and the selection from
\* minStartTime to min(minStartTime + 100 ms, maxEndTime).
ExtremaDiffer(tl, ex) ==
    ex.minStartTime # tl.minStartTime \/ ex.maxEndTime # tl.maxEndTime

C15_ReinitialisedToTheFile ==
    [][(lastEvent'.name = "setTraceFile" /\ ExtremaDiffer(timelineState, extrema'))
         => /\ timelineState'.minStartTime = extrema'.minStartTime
            /\ timelineState'.maxEndTime = extrema'.maxEndTime
            /\ timelineState'.startTime = extrema'.minStartTime
            /\ timelineState'.endTime = extrema'.maxEndTime
            /\ timelineState'.selectedStart = extrema'.minStartTime
            /\ timelineState'.selectedEnd =
                   MathMin(NumAdd(extrema'.minStartTime, R(1)), extrema'.maxEndTime)]_vars

\* A file of [2, 5/2], shorter than 100 ms past its start, was loaded.
C15_Witness ==
    /\ lastEvent.name = "setTraceFile"
    /\ extrema = [minStartTime |-> R(2), maxEndTime |-> Num(5, 2)]
    /\ timelineState.startTime = R(2)
    /\ timelineState.selectedEnd = Num(5, 2)

\* C18: in a window with startTime < endTime and of any positive width, a
\* time of the window is the time of the pixel it is drawn at, and a pixel
\* is the pixel of the time it stands for.
Widths == {R(1), R(3), R(WindowWidth), Num(1, 2)}

Pixels == {R(x) : x \in ClientXs} \cup {R(-5), Num(1, 3), R(WindowWidth + 7)}

ProperWindow(tl) ==
    /\ IsFinite(tl.startTime) /\ IsFinite(tl.endTime)
    /\ NumLt(tl.startTime, tl.endTime)

TimesOfWindow(tl) ==
    {u \in {tl.startTime, tl.endTime, tl.selectedStart, tl.selectedEnd,
            NumDiv(NumAdd(tl.startTime, tl.endTime), R(2)),
            NumDiv(NumAdd(tl.startTime, NumMul(R(2), tl.endTime)), R(3))} :
        IsFinite(u) /\ NumLe(tl.startTime, u) /\ NumLe(u, tl.endTime)}

C18_ScreenAndTimeRoundTrip ==
    ProperWindow(timelineState) =>
        \A w \in Widths :
            /\ \A u \in TimesOfWindow(timelineState) :
                  screenToTime(timeToScreen(u, timelineState, w), timelineState, w) = u
            /\ \A x \in Pixels :
                  timeToScreen(screenToTime(x, timelineState, w), timelineState, w) = x

\* The window [12.5e8, 22.5e8] that a wheel event has zoomed to, with the
\* selection partly inside it.
C18_Witness ==
    /\ timelineState.startTime = Num(25, 2)
    /\ timelineState.endTime = Num(45, 2)
    /\ timelineState.selectedStart \in TimesOfWindow(timelineState)
    /\ lastEvent.name = "timelineScrollHandler"

\* C23: with the action DraggingEdge a pointer move at pixel x sets the
\* selection to [min(d, f), max(d, f)], d the time of pixel x - deltaX and f
\* notDraggedEdgeTime, and leaves every other field; f is then an end of the
\* selection whenever d is a number, on either side of the dragged edge.
DraggedTime(tl, x) == screenToTime(NumSub(x, tl.deltaX), tl, R(WindowWidth))

FiniteSelection(tl) == IsFinite(tl.selectedStart) /\ IsFinite(tl.selectedEnd)

SelectionWidth(tl) == NumSub(tl.selectedEnd, tl.selectedStart)

WindowOf(tl) == <<tl.startTime, tl.endTime>>

C25_WheelChangesTheWindowOnly ==
    [][lastEvent'.name = "timelineScrollHandler"
         => /\ timelineState' = [timelineState EXCEPT
                                     !.startTime = timelineState'.startTime,
                                     !.endTime = timelineState'.endTime]
            /\ \E x \in ClientXs, deltaY \in DeltaYs :
                  WindowOf(timelineState') =
                      WindowOf(timelineScrollHandler(
                                   [timelineState EXCEPT !.action = "None"],
                                   R(x), R(deltaY)))]_vars

\* A wheel event during the drag of an edge has changed the window.
C25_Witness ==
    /\ lastEvent.name = "timelineScrollHandler"
    /\ timelineState.action = "DraggingEdge"
    /\ WindowOf(timelineState) # WindowOf(NewTimelineState)
    /\ ProperWindow(timelineState)

\* C26: when neither end of the new window of a wheel event is cut by the
\* clamp, the pixel of the cursor stands for the same time in the new window
\* as in the old one, and the new window is (1 + deltaY * 0.001) times as
\* long as the old one.
WindowLength(tl) == NumSub(tl.endTime, tl.startTime)

\* Neither end of the window the handler computes is changed by Math.max
\* and Math.min.
Unclamped(old, x, deltaY) ==
    LET m == screenToTime(x, old, R(WindowWidth))
        len == NumMul(WindowLength(old), NumAdd(R(1), NumMul(deltaY, Num(1, 1000))))
        s == NumSub(m, NumDiv(NumMul(NumSub(m, old.startTime), len), WindowLength(old)))
    IN  /\ NumLe(old.minStartTime, s)
        /\ NumLe(NumAdd(s, len), old.maxEndTime)

C26_ZoomKeepsTheTimeUnderTheCursor ==
    [][lastEvent'.name = "timelineScrollHandler"
         => \A x \in ClientXs, deltaY \in DeltaYs :
              (/\ timelineState' = timelineScrollHandler(timelineState, R(x), R(deltaY))
               /\ Unclamped(timelineState, R(x), R(deltaY)))
                 => /\ screenToTime(R(x), timelineState', R(WindowWidth))
                        = screenToTime(R(x), timelineState, R(WindowWidth))
                    /\ WindowLength(timelineState')
                        = NumMul(WindowLength(timelineState),
                                 NumAdd(R(1), NumMul(R(deltaY), Num(1, 1000))))]_vars

\* The first window [10, 30] zoomed to half its length about its middle.
C26_Witness ==
    /\ lastEvent.name = "timelineScrollHandler"
    /\ WindowOf(timelineState) = <<R(15), R(25)>>
    /\ timelineState.minStartTime = R(0)
    /\ timelineState.maxEndTime = R(40)

\* C29: in every state reached with loaded data whose minStartTime is at
\* most its maxEndTime, selectedStart is at most selectedEnd.
C29_SelectionIsOrdered ==
    (Loaded /\ NumLe(extrema.minStartTime, extrema.maxEndTime))
        => NumLe(timelineState.selectedStart, timelineState.selectedEnd)

\* C30: in every state reached with loaded data whose minStartTime is less
\* than its maxEndTime, startTime is less than endTime.
C30_WindowIsProper ==
    (Loaded /\ NumLt(extrema.minStartTime, extrema.maxEndTime))
        => NumLt(timelineState.startTime, timelineState.endTime)

----------------------------------------------------------------------------
(* Properties of the debounce effect                                        *)

\* C13: at most one scheduled update is pending, and it is the one that the
\* next run of the effect cancels first: the update of an earlier run has
\* been cancelled, and a cancelled update is not pending, so it never fires.
C13_OnePendingUpdate ==
    /\ Cardinality(timers) <= 1
    /\ \A tm \in timers : cleanup = ClearTimeout(tm.id) /\ tm.id = effectRuns

\* A pending update that replaced the cancelled update of the run before.
C13_Witness ==
    \E tm \in timers : tm.replaces # 0 /\ tm.replaces < tm.id

\* C14: the selection changes finitely often, and from some time on the
\* displayed range is the latest selection for good.
C14_ConvergesToTheSelection ==
    <>[](displayedSpansRange = Selection(timelineState))

\* A scheduled update has brought a selection other than the first.
C14_Witness ==
    /\ lastEvent.name = "scheduledUpdate"
    /\ displayedSpansRange = Selection(timelineState)
    /\ displayedSpansRange = [startTime |-> R(0), endTime |-> R(1)]

\* C27: a pending update is due one period after the last update of the
\* displayed range, whenever it was scheduled; an update is at least one
\* period after the update before it; and a run of the effect or a timer
\* that comes one period or more after the last update leaves the displayed
\* range at the selection, however many selections came in between.
EffectEvents == {"setTimelineState", "render", "scheduledUpdate"}

C27_DeadlineFromTheLastUpdate ==
    [][/\ \A tm \in timers' :
             tm.due = lastUpdatedDisplayedSpansRange' + updateDisplayedSpansRangePeriod
       /\ displayedSpansRange' # displayedSpansRange
             => lastUpdatedDisplayedSpansRange' # lastUpdatedDisplayedSpansRange
       /\ lastUpdatedDisplayedSpansRange' # lastUpdatedDisplayedSpansRange
             => /\ lastUpdatedDisplayedSpansRange' = now
                /\ lastUpdatedDisplayedSpansRange' - lastUpdatedDisplayedSpansRange
                     >= updateDisplayedSpansRangePeriod
       /\ (/\ lastEvent'.name \in EffectEvents
           /\ now' = now
           /\ now - lastUpdatedDisplayedSpansRange >= updateDisplayedSpansRangePeriod)
             => displayedSpansRange' = Selection(timelineState')]_vars

\* A selection that came 50 ms or more after the last update, and after
\* another selection that was not displayed: its update is pending and due
\* less than one period from now.
C27_Witness ==
    /\ lastEvent.name = "setTimelineState"
    /\ now > lastUpdatedDisplayedSpansRange
    /\ \E tm \in timers :
          /\ tm.replaces # 0
          /\ tm.due < now + updateDisplayedSpansRangePeriod
          /\ tm.range = Selection(timelineState)

====
